---- MODULE Spec2Model ----
(***************************************************************************)
(* Model of the picture hydrator (src/main.go, second listing, lines       *)
(* 79-362).  One process run executes main: it reads every ingest file,    *)
(* then calls processRegion for each region in unspecified map order.      *)
(* processRegion opens out/<region>.ndjson with O_CREATE|O_APPEND, loads   *)
(* the records already in it, and for every ingest id that is not among    *)
(* them calls the remote service twice (getInfo, getSizes), builds an      *)
(* Entry and appends it to the file at once.  Every error is log.Fatal,    *)
(* which ends the process.  The environment may run the process again and  *)
(* may change the ingest files between runs.                               *)
(***************************************************************************)
EXTENDS Integers, Sequences, FiniteSets, TLC

\* ---- bounds ----------------------------------------------------------
NumRegions == 2
NumIds == 2
MaxLen == 2
MaxPayload == 2
MaxRuns == 2
MaxSegLen == 2
MaxFarm == 11
MaxUrls == 2

Regions == 1..NumRegions
Ids == 1..NumIds
Payloads == 1..MaxPayload

\* every ingest list of at most MaxLen identifiers (duplicates allowed)
IdLists == UNION {[1..n -> Ids] : n \in 0..MaxLen}

\* ---- data ------------------------------------------------------------
\* Entry: the identifier plus what was derived from the two payloads
Entry(id, i, s) == [Id |-> id, Info |-> i, Sizes |-> s]

\* a record cut short by a failed write: it does not decode
Torn == [Id |-> 0, Info |-> 0, Sizes |-> 0]
NoEntry == [Id |-> 0, Info |-> 0, Sizes |-> 1]
NoIds == <<0>>
EmptyMap == [x \in {} |-> NoEntry]

VARIABLES
    ingestFile,       \* ingest/<region>.ndjson: the desired ids of a region
    outExists,        \* whether out/<region>.ndjson exists
    outFile,          \* the records of out/<region>.ndjson, in file order
    remote,           \* the remote service: the data it currently serves
    pc,               \* position of the process
    ingests,          \* main: map region -> ids
    todo,             \* main: regions the range loop has not visited yet
    region,           \* processRegion: its region argument
    existingEntries,  \* processRegion: result of parseExisting
    idx,              \* processRegion: position of the range loop over ids
    method,           \* callFlickr: method being called
    photoId,          \* callFlickr: params["photo_id"] of the call
    httpResp,         \* callFlickr: outcome of the last http.Get
    body,             \* callFlickr: decoded payload of the last call
    info,             \* createEntry: payload of getInfo
    entry,            \* processRegion: entry returned by createEntry
    fatal,            \* which log.Fatal ended the process
    calls,            \* history: remote calls issued by this processRegion
    startExists,      \* history: outExists[region] when processRegion began
    startFile,        \* history: outFile[region] when processRegion began
    lastDone,         \* history: ids of the last run of each region, if it
                      \* returned; NoIds otherwise
    aborted,          \* history: the last run of the region ended on a failed
                      \* remote call and its ingest file is still the same
    runs              \* history: how many times the process was started

vars == <<ingestFile, outExists, outFile, remote, pc, ingests, todo, region,
          existingEntries, idx, method, photoId, httpResp, body, info, entry,
          fatal, calls, startExists, startFile, lastDone, aborted, runs>>

files == <<ingestFile, outExists, outFile, remote>>
mainVars == <<ingests, todo>>
callVars == <<method, photoId, httpResp, body, info, entry>>
histVars == <<calls, startExists, startFile, lastDone, aborted, runs>>

\* ---- pure helpers ----------------------------------------------------
IdsOf(recs) == [k \in DOMAIN recs |-> recs[k].Id]

IsPrefix(s, t) == Len(s) <= Len(t) /\ SubSeq(t, 1, Len(s)) = s

Last(S) == CHOOSE k \in S : \A j \in S : j <= k

\* parseIngest: an ingest file is modelled by the strings it decodes to;
\* parseIngest appends them to ids in file order
parseIngest(f) == f

\* variant: an empty file (EOF at the first Decode) is taken for an error
parseExistingOkEofFatal(exists, recs) ==
    /\ recs # <<>>
    /\ \A k \in DOMAIN recs : recs[k] # Torn

\* parseExisting, error result: a record that does not decode is fatal
parseExistingOk(exists, recs) ==
    ~exists \/ \A k \in DOMAIN recs : recs[k] # Torn

\* variant: the decode loop stops after the first record
parseExistingFirstOnly(exists, recs) ==
    IF ~exists \/ recs = <<>> THEN EmptyMap
    ELSE [id \in {recs[1].Id} |-> recs[1]]

\* parseExisting, map result: nil when the file is missing, otherwise
\* entries[entry.Id] = entry in file order, so the last record of an id wins
parseExisting(exists, recs) ==
    IF ~exists THEN EmptyMap
    ELSE [id \in {recs[k].Id : k \in DOMAIN recs} |->
             recs[Last({k \in DOMAIN recs : recs[k].Id = id})]]

\* variant: every region uses the file of the first region
outNameShared(r) == 1

\* processRegion and parseExisting: "out/" + region + ".ndjson", one file
\* for each region; the files are indexed by their region
outName(r) == r

\* variant: the lookup never reports a hit
IsHitNever(existing, id) == FALSE

\* processRegion: `if _, ok := existingEntries[id]; ok { continue }`
IsHit(existing, id) == id \in DOMAIN existing

\* variant: the file is opened with O_TRUNC, the record replaces the content
truncRecord(recs, e) == <<e>>

\* variant: the record is written at the start of the file
prependRecord(recs, e) == <<e>> \o recs

\* json.Encoder on a file opened with O_APPEND: the record goes to the end
appendRecord(recs, e) == Append(recs, e)

\* callFlickr: the outcomes of one call: success, an error of http.Get, a
\* status other than 200, an error of io.ReadAll, an error of json.Unmarshal
Outcomes == {"ok", "transport", "status", "read", "json"}

\* variant: only the error of http.Get is checked, not the status code
IsFatalTransportOnly(o) == o \notin {"ok", "status"}

\* callFlickr: every outcome but success ends in log.Fatal
IsFatal(o) == o # "ok"

\* variant: callFlickr without the time.Sleep, as in the first listing
callFlickrNoSleep == "get"

\* callFlickr, lines 319-339: a call begins with its parameters and the
\* one-second sleep
callFlickr == "sleep"

\* variant: the entry is encoded right after getInfo
afterCallInfoOnly(m) == "encode"

\* createEntry: getInfo is followed by getSizes, getSizes by the transform
\* and the return to processRegion, which encodes the entry
afterCall(m) == IF m = "getInfo" THEN "sleep" ELSE "encode"

\* createEntry: the entry built from the id and the two payloads
createEntry(id, i, s) == Entry(id, i, s)

ids == ingests[region]

\* ---- initial state ---------------------------------------------------
Init ==
    /\ ingestFile \in [Regions -> IdLists]
    /\ outExists = [r \in Regions |-> FALSE]
    /\ outFile = [r \in Regions |-> <<>>]
    /\ remote = 1
    /\ pc = "start"
    /\ ingests = [r \in Regions |-> <<>>]
    /\ todo = {}
    /\ region = 0
    /\ existingEntries = EmptyMap
    /\ idx = 0
    /\ method = "none"
    /\ photoId = 0
    /\ httpResp = "none"
    /\ body = 0
    /\ info = 0
    /\ entry = NoEntry
    /\ fatal = "none"
    /\ calls = 0
    /\ startExists = FALSE
    /\ startFile = <<>>
    /\ lastDone = [r \in Regions |-> NoIds]
    /\ aborted = [r \in Regions |-> FALSE]
    /\ runs = 1

\* log.Fatal inside processRegion: the process exits, nothing is undone
Fatal(reason) ==
    /\ pc' = "failed"
    /\ fatal' = reason
    /\ lastDone' = [lastDone EXCEPT ![region] = NoIds]
    /\ aborted' = [aborted EXCEPT ![region] = reason \in Outcomes \ {"ok"}]

\* ---- main ------------------------------------------------------------
\* main, lines 111-126: read every ingest file into the ingests map
Main ==
    /\ pc = "start"
    /\ ingests' = [r \in Regions |-> parseIngest(ingestFile[r])]
    /\ todo' = Regions
    /\ pc' = "main"
    /\ UNCHANGED <<files, region, existingEntries, idx, callVars, fatal,
                   histVars>>

\* main, lines 128-129: the range loop picks some region not yet visited
\* and calls processRegion
CallProcessRegion(r) ==
    /\ pc = "main"
    /\ r \in todo
    /\ todo' = todo \ {r}
    /\ region' = r
    /\ pc' = "open"
    /\ calls' = 0
    /\ startExists' = outExists[r]
    /\ startFile' = outFile[r]
    /\ UNCHANGED <<files, ingests, existingEntries, idx, callVars, fatal,
                   lastDone, aborted, runs>>

\* main, lines 128-131: the range loop is over, main returns
MainReturn ==
    /\ pc = "main"
    /\ todo = {}
    /\ pc' = "done"
    /\ UNCHANGED <<files, mainVars, region, existingEntries, idx, callVars,
                   fatal, histVars>>

\* ---- processRegion ---------------------------------------------------
\* line 135: os.OpenFile(..., O_CREATE|O_APPEND|O_WRONLY) creates the file
\* when it is missing and keeps its content otherwise
OpenFile ==
    /\ pc = "open"
    /\ outExists' = [outExists EXCEPT ![outName(region)] = TRUE]
    /\ pc' = "parse"
    /\ UNCHANGED <<ingestFile, outFile, remote, mainVars, region, existingEntries,
                   idx, callVars, fatal, histVars>>

\* lines 136-138: the open fails
OpenFileFail ==
    /\ pc = "open"
    /\ Fatal("open")
    /\ UNCHANGED <<files, mainVars, region, existingEntries, idx, callVars,
                   calls, startExists, startFile, runs>>

\* line 142: existingEntries := parseExisting(region)
ParseExisting ==
    /\ pc = "parse"
    /\ IF parseExistingOk(outExists[outName(region)],
                          outFile[outName(region)])
         THEN /\ existingEntries' =
                     parseExisting(outExists[outName(region)],
                                   outFile[outName(region)])
              /\ idx' = 1
              /\ pc' = "loop"
              /\ UNCHANGED <<fatal, lastDone, aborted>>
         ELSE /\ Fatal("existing")
              /\ UNCHANGED <<existingEntries, idx>>
    /\ UNCHANGED <<files, mainVars, region, callVars, calls, startExists,
                   startFile, runs>>

\* lines 144-149: one turn of the range loop over ids, up to the first
\* remote call of createEntry
Loop ==
    /\ pc = "loop"
    /\ IF idx > Len(ids)
         THEN /\ pc' = "ret"
              /\ UNCHANGED <<idx, method, photoId>>
         ELSE IF IsHit(existingEntries, ids[idx])
         THEN /\ idx' = idx + 1
              /\ pc' = "loop"
              /\ UNCHANGED <<method, photoId>>
         ELSE /\ method' = "getInfo"
              /\ photoId' = ids[idx]
              /\ pc' = callFlickr
              /\ UNCHANGED idx
    /\ UNCHANGED <<files, mainVars, region, existingEntries, httpResp, body,
                   info, entry, fatal, histVars>>

\* callFlickr, line 339: time.Sleep(1 * time.Second)
Sleep ==
    /\ pc = "sleep"
    /\ pc' = "get"
    /\ UNCHANGED <<files, mainVars, region, existingEntries, idx, callVars,
                   fatal, histVars>>

\* callFlickr, lines 341-357: http.Get and the decoding of its answer; the
\* remote service answers with the data it serves, or the call fails
HttpGet(o) ==
    /\ pc = "get"
    /\ httpResp' = o
    /\ body' = IF o = "ok" THEN remote ELSE 0
    /\ calls' = calls + 1
    /\ pc' = "resp"
    /\ UNCHANGED <<files, mainVars, region, existingEntries, idx, method,
                   photoId, info, entry, fatal, startExists, startFile,
                   lastDone, aborted, runs>>

\* callFlickr, lines 342-361, and createEntry, lines 273-317: a failed call
\* is fatal; getInfo is followed by getSizes; after getSizes the entry is
\* built and handed to the encoder
CallReturn ==
    /\ pc = "resp"
    /\ IF IsFatal(httpResp)
         THEN /\ Fatal(httpResp)
              /\ UNCHANGED <<method, photoId, info, entry>>
         ELSE IF afterCall(method) = "sleep"
         THEN /\ info' = body
              /\ method' = "getSizes"
              /\ photoId' = ids[idx]
              /\ pc' = callFlickr
              /\ UNCHANGED <<entry, fatal, lastDone, aborted>>
         ELSE /\ entry' = createEntry(ids[idx], info, body)
              /\ pc' = "encode"
              /\ UNCHANGED <<method, photoId, info, fatal, lastDone,
                             aborted>>
    /\ UNCHANGED <<files, mainVars, region, existingEntries, idx, httpResp,
                   body, calls, startExists, startFile, runs>>

\* line 150: outEnc.Encode(entry) appends the record to the file
Encode ==
    /\ pc = "encode"
    /\ outFile' = [outFile EXCEPT
                     ![outName(region)] =
                         appendRecord(outFile[outName(region)], entry)]
    /\ idx' = idx + 1
    /\ method' = "none"
    /\ photoId' = 0
    /\ httpResp' = "none"
    /\ body' = 0
    /\ info' = 0
    /\ entry' = NoEntry
    /\ pc' = "loop"
    /\ UNCHANGED <<ingestFile, outExists, remote, mainVars, region, existingEntries,
                   fatal, histVars>>

\* lines 150-152: the write fails; nothing or part of the record reached
\* the file
EncodeFail(partial) ==
    /\ pc = "encode"
    /\ outFile' = IF partial
                    THEN [outFile EXCEPT
                            ![outName(region)] =
                                appendRecord(outFile[outName(region)], Torn)]
                    ELSE outFile
    /\ Fatal("encode")
    /\ UNCHANGED <<ingestFile, outExists, remote, mainVars, region, existingEntries,
                   idx, callVars, calls, startExists, startFile, runs>>

\* line 154: processRegion returns to the range loop of main
ProcessRegionReturn ==
    /\ pc = "ret"
    /\ lastDone' = [lastDone EXCEPT ![region] = ids]
    /\ aborted' = [aborted EXCEPT ![region] = FALSE]
    /\ pc' = "main"
    /\ idx' = 0
    /\ existingEntries' = EmptyMap
    /\ UNCHANGED <<files, mainVars, region, callVars, fatal, calls,
                   startExists, startFile, runs>>

\* ---- environment -----------------------------------------------------
\* the upstream step rewrites a region's ingest file before a run reads it
EditIngest(r, l) ==
    /\ pc = "start"
    /\ ingestFile[r] # l
    /\ ingestFile' = [ingestFile EXCEPT ![r] = l]
    /\ aborted' = [aborted EXCEPT ![r] = FALSE]
    /\ UNCHANGED <<outExists, outFile, remote, pc, mainVars, region,
                   existingEntries, idx, callVars, fatal, calls, startExists,
                   startFile, lastDone, runs>>

\* the remote service's data changes between two runs
RemoteChange(p) ==
    /\ pc = "start"
    /\ remote # p
    /\ remote' = p
    /\ UNCHANGED <<ingestFile, outExists, outFile, pc, mainVars, region,
                   existingEntries, idx, callVars, fatal, histVars>>

\* the process is started again
Rerun ==
    /\ pc \in {"done", "failed"}
    /\ runs < MaxRuns
    /\ runs' = runs + 1
    /\ pc' = "start"
    /\ ingests' = [r \in Regions |-> <<>>]
    /\ todo' = {}
    /\ region' = 0
    /\ existingEntries' = EmptyMap
    /\ idx' = 0
    /\ method' = "none"
    /\ photoId' = 0
    /\ httpResp' = "none"
    /\ body' = 0
    /\ info' = 0
    /\ entry' = NoEntry
    /\ fatal' = "none"
    /\ calls' = 0
    /\ startExists' = FALSE
    /\ startFile' = <<>>
    /\ UNCHANGED <<files, lastDone, aborted>>

Next ==
    \/ Main
    \/ \E r \in Regions : CallProcessRegion(r)
    \/ MainReturn
    \/ OpenFile
    \/ OpenFileFail
    \/ ParseExisting
    \/ Loop
    \/ Sleep
    \/ \E o \in Outcomes : HttpGet(o)
    \/ CallReturn
    \/ Encode
    \/ \E partial \in BOOLEAN : EncodeFail(partial)
    \/ ProcessRegionReturn
    \/ \E r \in Regions, l \in IdLists : EditIngest(r, l)
    \/ \E p \in Payloads : RemoteChange(p)
    \/ Rerun

Spec == Init /\ [][Next]_vars

\* ---- createEntry: the derived fields -----------------------------------
\* In Spec an entry stands for its id and the payloads it was built from.
\* EntrySpec looks inside createEntry, lines 282-317: info holds the decoded
\* getInfo payload, and Transform builds the entry from it.

\* strings.Join(elems, sep)
RECURSIVE Join(_, _)
Join(elems, sep) ==
    IF elems = <<>> THEN ""
    ELSE IF Len(elems) = 1 THEN elems[1]
    ELSE elems[1] \o sep \o Join(Tail(elems), sep)

\* fmt.Sprintf("%d", n): the decimal digits of n, with a sign when negative
Digit(d) == <<"0", "1", "2", "3", "4", "5", "6", "7", "8", "9">>[d + 1]
RECURSIVE Sprintfd(_)
Sprintfd(n) ==
    IF n < 0 THEN "-" \o Sprintfd(0 - n)
    ELSE IF n < 10 THEN Digit(n)
    ELSE Sprintfd(n \div 10) \o Digit(n % 10)

\* variant: the default icon is used when the icon farm is 0
ownerIconByFarm(owner) ==
    IF owner.IconFarm # 0
      THEN "https://farm" \o Sprintfd(owner.IconFarm) \o ".staticflickr.com/"
           \o owner.IconServer \o "/buddyicons/" \o owner.NSID \o ".jpg"
      ELSE "https://www.flickr.com/images/buddyicon.gif"

\* createEntry, lines 282-285
ownerIcon(owner) ==
    IF owner.IconServer # "0"
      THEN "https://farm" \o Sprintfd(owner.IconFarm) \o ".staticflickr.com/"
           \o owner.IconServer \o "/buddyicons/" \o owner.NSID \o ".jpg"
      ELSE "https://www.flickr.com/images/buddyicon.gif"

\* lines 287-289: the five segments, most specific first
potentialLocationSegments(loc) ==
    <<loc.Neighborhood, loc.Locality, loc.County, loc.Region, loc.Country>>

\* variant: the empty segments are not dropped
locationDescriptionUnfiltered(loc) ==
    Join(potentialLocationSegments(loc), ", ")

\* createEntry, lines 287-296
locationDescription(loc) ==
    LET NonEmpty(segment) == segment # ""
        locationSegments == SelectSeq(potentialLocationSegments(loc), NonEmpty)
    IN  Join(locationSegments, ", ")

\* variant: the last URL entry is used
webpageLastUrl(photo) ==
    IF Len(photo.URLs) > 0
      THEN photo.URLs[Len(photo.URLs)].Content
      ELSE "https://flickr.com/photos/" \o photo.Owner.NSID

\* createEntry, lines 298-301
webpage(photo) ==
    IF Len(photo.URLs) > 0
      THEN photo.URLs[1].Content
      ELSE "https://flickr.com/photos/" \o photo.Owner.NSID

\* createEntry, lines 303-316: the entry returned
transform(id, photo, sizes) ==
    [Id |-> id,
     Sizes |-> sizes,
     OwnerUsername |-> photo.Owner.Username,
     OwnerIcon |-> ownerIcon(photo.Owner),
     Title |-> photo.Title,
     Description |-> photo.Description,
     DateTaken |-> photo.Taken,
     Latitude |-> photo.Location.Latitude,
     Longitude |-> photo.Location.Longitude,
     LocationAccuracy |-> photo.Location.Accuracy,
     LocationDescription |-> locationDescription(photo.Location),
     Webpage |-> webpage(photo)]

\* the strings of at most n characters over , space and a letter
RECURSIVE StringsUpTo(_)
StringsUpTo(n) ==
    IF n = 0 THEN {""}
    ELSE LET S == StringsUpTo(n - 1)
         IN  S \cup {t \o c : t \in S, c \in {"A", ",", " "}}

SegmentValues == StringsUpTo(MaxSegLen)
IconServers == {"", "0", "00", "1", "10", "1234"}
NSIDs == {"", "n", "nsid123"}
UrlContents == {"", "u", "https://www.flickr.com/photos/x/1/"}

\* a decoded getInfo payload (the anonymous struct of lines 228-272)
PhotoZero ==
    [Owner |-> [NSID |-> "", Username |-> "", IconServer |-> "",
                IconFarm |-> 0],
     Title |-> "", Description |-> "", Taken |-> "",
     Location |-> [Latitude |-> "", Longitude |-> "", Accuracy |-> "",
                   Neighborhood |-> "", Locality |-> "", County |-> "",
                   Region |-> "", Country |-> ""],
     URLs |-> <<>>]

\* payloads that differ in their location segments
LocationPhotos ==
    {[PhotoZero EXCEPT !.Location.Neighborhood = g[1],
                       !.Location.Locality = g[2],
                       !.Location.County = g[3],
                       !.Location.Region = g[4],
                       !.Location.Country = g[5]] :
         g \in [1..5 -> SegmentValues]}

\* payloads that differ in their owner
OwnerPhotos ==
    {[PhotoZero EXCEPT !.Owner.NSID = n, !.Owner.IconServer = sv,
                       !.Owner.IconFarm = f] :
         n \in NSIDs, sv \in IconServers, f \in 0..MaxFarm}

\* payloads that differ in their URL list and owner identifier
UrlPhotos ==
    {[PhotoZero EXCEPT !.Owner.NSID = n, !.URLs = u] :
         n \in NSIDs,
         u \in UNION {[1..k -> [Type : {"photopage"}, Content : UrlContents]] :
                        k \in 0..MaxUrls}}

InitEntry ==
    /\ ingestFile = [r \in Regions |-> <<>>]
    /\ outExists = [r \in Regions |-> FALSE]
    /\ outFile = [r \in Regions |-> <<>>]
    /\ remote = 1
    /\ pc = "transform"
    /\ ingests = [r \in Regions |-> <<>>]
    /\ todo = {}
    /\ region = 0
    /\ existingEntries = EmptyMap
    /\ idx = 0
    /\ method = "getSizes"
    /\ photoId = 1
    /\ httpResp = "ok"
    /\ body = 0
    /\ info \in LocationPhotos \cup OwnerPhotos \cup UrlPhotos
    /\ entry = NoEntry
    /\ fatal = "none"
    /\ calls = 0
    /\ startExists = FALSE
    /\ startFile = <<>>
    /\ lastDone = [r \in Regions |-> NoIds]
    /\ aborted = [r \in Regions |-> FALSE]
    /\ runs = 1

\* createEntry, lines 282-317, after both calls have returned
Transform ==
    /\ pc = "transform"
    /\ entry' = transform(photoId, info, <<>>)
    /\ pc' = "transformed"
    /\ UNCHANGED <<files, mainVars, region, existingEntries, idx, method,
                   photoId, httpResp, body, info, fatal, histVars>>

EntrySpec == InitEntry /\ [][Transform]_vars

\* ---- one process run, with its scheduling ------------------------------
\* the steps of the process up to http.Get, and after its return
ProcessStep ==
    \/ Main
    \/ \E r \in Regions : CallProcessRegion(r)
    \/ MainReturn
    \/ OpenFile
    \/ OpenFileFail
    \/ ParseExisting
    \/ Loop
    \/ Sleep
    \/ CallReturn
    \/ Encode
    \/ \E partial \in BOOLEAN : EncodeFail(partial)
    \/ ProcessRegionReturn

\* callFlickr, line 341: the return of http.Get, which needs the remote
\* service to answer or the transport to fail
HttpGetReturns == \E o \in Outcomes : HttpGet(o)

NextRun == ProcessStep \/ HttpGetReturns

\* The process is never suspended for good, so its own steps are taken.
\* http.Get is called on the default client (main.go:341), whose Timeout is
\* zero: nothing in the program makes the call return when the service stays
\* silent, so no fairness is stated for HttpGetReturns.
FairRun == Init /\ [][NextRun]_vars /\ WF_vars(ProcessStep)

\* ---- vocabulary of the properties -------------------------------------
\* positions inside processRegion
InRegion == pc \in {"open", "parse", "loop", "sleep", "get", "resp",
                    "encode", "ret"}
\* positions inside processRegion after parseExisting returned
Loaded == pc \in {"loop", "sleep", "get", "resp", "encode", "ret"}
\* the process ended because a remote call failed
RemoteFailed == pc = "failed" /\ fatal \in Outcomes \ {"ok"}

IdSet(recs) == {recs[k].Id : k \in DOMAIN recs}

\* the ids of l that recs holds no record for, in the order of l
Misses(l, recs) ==
    LET Miss(id) == id \notin IdSet(recs) IN SelectSeq(l, Miss)

\* the records this processRegion has added to the file so far
Appended == Len(outFile[region]) - Len(startFile)

\* ---- C1 ---------------------------------------------------------------
\* C1: when the previous run of a region returned without failure and the
\* region is run again with the same ingest list, the second run issues no
\* remote call and leaves the snapshot file exactly as the first run left it
\* (same records, same order).
IdempotentRun ==
    (InRegion /\ lastDone[region] = ids)
        => /\ calls = 0
           /\ pc \notin {"sleep", "get", "resp", "encode"}
           /\ outFile[region] = startFile

\* a second run over the same two-id list, at its return
IdempotentRunWitness ==
    /\ pc = "ret"
    /\ lastDone[region] = ids
    /\ Len(ids) = 2
    /\ Len(startFile) >= 2
    /\ runs = 2

\* ---- C2 ---------------------------------------------------------------
\* C2 (as stated): after a run of processRegion that returns, the id
\* sequence of the snapshot equals the ingest id sequence, also when the
\* starting snapshot already held some of the ids.
OrderFidelity ==
    pc = "ret" => IdsOf(outFile[region]) = ids

\* C2 (amended): after a run of processRegion that returns, the id sequence
\* of the snapshot is the id sequence of the starting snapshot followed by
\* the ingest ids the starting snapshot did not hold, in ingest order; it
\* equals the ingest id sequence when the starting snapshot is empty.
OrderAppendsMisses ==
    pc = "ret"
        => /\ IdsOf(outFile[region]) = IdsOf(startFile) \o Misses(ids, startFile)
           /\ startFile = <<>> => IdsOf(outFile[region]) = ids

\* a mixed HIT/MISS run whose snapshot order differs from the ingest order
OrderAppendsMissesWitness ==
    /\ pc = "ret"
    /\ startFile # <<>>
    /\ calls = 2
    /\ Len(ids) = 2
    /\ ids[1] \notin IdSet(startFile)
    /\ ids[2] \in IdSet(startFile)

\* ---- C3 ---------------------------------------------------------------
\* C3 (as stated): when a run aborts because a remote call failed, the
\* snapshot file is identical to the one before the run, and no file exists
\* if none existed before.
FailureContainment ==
    RemoteFailed
        => /\ outFile[region] = startFile
           /\ outExists[region] = startExists

\* C3 (amended): when a run aborts because a remote call failed, the
\* snapshot file exists, the records it held before the run are still its
\* first records, unchanged, and they are followed by the records of the
\* MISS ids that the aborted run fetched before the failing id.
FailureKeepsPrefix ==
    RemoteFailed
        => /\ outExists[region]
           /\ IsPrefix(startFile, outFile[region])
           /\ IdsOf(outFile[region]) =
                  IdsOf(startFile) \o Misses(SubSeq(ids, 1, idx - 1), startFile)

\* an abort on the second MISS id of a run that started from a non-empty
\* snapshot
FailureKeepsPrefixWitness ==
    /\ RemoteFailed
    /\ startFile # <<>>
    /\ Appended = 1
    /\ fatal = "status"

\* ---- C4 ---------------------------------------------------------------
\* C4 (as stated): no snapshot write of a region happens before its last
\* remote call: whenever a remote call is about to be issued, the run has
\* written nothing yet.
PersistAfterAllFetches ==
    pc \in {"sleep", "get"} => outFile[region] = startFile

\* C4 (amended): a record is written only after the two remote calls of its
\* own id have both succeeded: each write is the step taken from the encode
\* position, reached with two successful calls per record written so far
\* and for the record being written; the calls of later MISS ids follow it.
PersistAfterOwnFetch ==
    InRegion
        => /\ 2 * Appended <= calls
           /\ pc \in {"loop", "ret"} => calls = 2 * Appended
           /\ pc = "encode"
                => /\ calls = 2 * (Appended + 1)
                   /\ httpResp = "ok"
                   /\ method = "getSizes"
                   /\ entry.Id = ids[idx]

\* the second record of a run is about to be written
PersistAfterOwnFetchWitness ==
    /\ pc = "encode"
    /\ Appended = 1
    /\ calls = 4

\* ---- C5 ---------------------------------------------------------------
\* C5: no two records of a region's snapshot file have the same identifier.
UniqueIds ==
    \A r \in Regions :
        \A j, k \in DOMAIN outFile[r] :
            j # k => outFile[r][j].Id # outFile[r][k].Id

\* ---- C6 ---------------------------------------------------------------
\* C6: when the snapshot loaded by a run holds a record for every id of the
\* ingest list, the run issues no remote call.
NoRedundantFetch ==
    (Loaded /\ \A k \in DOMAIN ids : ids[k] \in IdSet(startFile))
        => /\ calls = 0
           /\ pc \in {"loop", "ret"}

\* a run over two different ids, both already in the snapshot
NoRedundantFetchWitness ==
    /\ pc = "ret"
    /\ Len(ids) = 2
    /\ ids[1] # ids[2]
    /\ \A k \in DOMAIN ids : ids[k] \in IdSet(startFile)

\* ---- C7 ---------------------------------------------------------------
\* C7: an identifier whose record is already in the region's snapshot, from
\* an earlier run or from an earlier position of the same ingest list, is
\* never fetched again: no remote call is issued for such an id.
CreateOnce ==
    pc \in {"sleep", "get"} => ids[idx] \notin IdSet(outFile[region])

\* ---- C8 ---------------------------------------------------------------
\* C8: a record, once in a snapshot file, is never changed or removed by any
\* later step of any run, whatever the remote service serves by then.
RecordImmutable ==
    [][\A r \in Regions :
          \A k \in DOMAIN outFile[r] :
              (/\ k \in DOMAIN outFile'[r]
               /\ outFile'[r][k] = outFile[r][k])]_vars

\* a later run has added a record while an older record holds data the
\* remote service no longer serves
RecordImmutableWitness ==
    /\ pc = "ret"
    /\ runs = 2
    /\ Appended = 1
    /\ startFile # <<>>
    /\ startFile[1].Info # remote
    /\ outFile[region][1] = startFile[1]

\* ---- C9 ---------------------------------------------------------------
\* C9: when a region has no snapshot file, loading raises no error and gives
\* the empty mapping, every ingest id is a MISS, and a run whose remote
\* calls all succeed returns with one record per ingest id, in ingest order.
FirstRun ==
    (region # 0 /\ ~startExists)
        => /\ fatal # "existing"
           /\ Loaded => /\ existingEntries = EmptyMap
                        /\ \A k \in DOMAIN ids :
                               ~IsHit(existingEntries, ids[k])
           /\ pc = "ret" => /\ IdsOf(outFile[region]) = ids
                            /\ calls = 2 * Len(ids)

\* a first run over two ids, at its return
FirstRunWitness ==
    /\ pc = "ret"
    /\ ~startExists
    /\ Len(ids) = 2
    /\ Len(outFile[region]) = 2

\* ---- C10 --------------------------------------------------------------
\* C10: once a remote call has failed, the only steps left are the exit of
\* the process and a later restart: the call is not retried, the id is not
\* skipped, no remote call is issued and no snapshot is written or created.
FatalNoRetry ==
    [][(httpResp \in Outcomes \ {"ok"})
          => (/\ pc' \in {"failed", "start"}
              /\ outFile' = outFile
              /\ outExists' = outExists
              /\ calls' \in {calls, 0})]_vars

\* a failed call has ended the process while a region is still unvisited
FatalNoRetryWitness ==
    /\ pc = "failed"
    /\ fatal = "json"
    /\ todo # {}
    /\ idx < Len(ids)

\* ---- C11 --------------------------------------------------------------
\* C11: every remote call is taken from the position right after its own
\* sleep, and a sleep is followed by nothing but its call; the calls of a
\* MISS id are getInfo first and getSizes second, both with that id as
\* photo_id; an entry is encoded after exactly two calls of its own.
TwoRateLimitedCalls ==
    [][(/\ (pc' = "get") => (pc = "sleep")
        /\ (pc = "sleep") => (pc' = "get")
        /\ (calls' = calls + 1) => (pc = "get" /\ pc' = "resp")
        /\ (pc' \in {"sleep", "get"})
              => (/\ photoId' = ids'[idx']
                  /\ method' = IF calls' % 2 = 0 THEN "getInfo"
                                                 ELSE "getSizes")
        /\ (pc' = "encode") => (calls' = 2 * (Appended' + 1))
        /\ (pc' \in {"loop", "ret"}) => (calls' = 2 * Appended'))]_vars

\* the getSizes call of the second MISS id is about to be issued
TwoRateLimitedCallsWitness ==
    /\ pc = "get"
    /\ method = "getSizes"
    /\ calls = 3
    /\ idx = 2

\* ---- C16 --------------------------------------------------------------
\* the number of MISS ids among the first k ingest ids
MissCount(k) == Len(Misses(SubSeq(ids, 1, k), startFile))

\* C16: remote calls are issued only for ids the loaded snapshot does not
\* hold, and when the loop is at position idx the calls issued so far are the
\* two calls of every MISS id before idx plus the calls of ids[idx] itself,
\* so the calls follow the ingest order and both calls of an id complete
\* before the first call of the next.
FetchOrder ==
    Loaded
        => /\ pc \in {"sleep", "get", "resp", "encode"}
                => /\ ids[idx] \notin IdSet(startFile)
                   /\ photoId = ids[idx]
           /\ pc \in {"sleep", "get"}
                => calls = 2 * MissCount(idx - 1)
                             + (IF method = "getInfo" THEN 0 ELSE 1)
           /\ pc = "resp"
                => calls = 2 * MissCount(idx - 1)
                             + (IF method = "getInfo" THEN 1 ELSE 2)
           /\ pc = "encode" => calls = 2 * MissCount(idx - 1) + 2
           /\ pc = "loop" => calls = 2 * MissCount(idx - 1)
           /\ pc = "ret" => calls = 2 * MissCount(Len(ids))

\* the first id was a HIT and skipped, the first call goes to the second id
FetchOrderWitness ==
    /\ pc = "get"
    /\ idx = 2
    /\ calls = 0
    /\ ids[1] \in IdSet(startFile)

\* ---- C18 --------------------------------------------------------------
\* C18: at every point of a run of processRegion, returned or aborted, the
\* records the file held when the run began are the first records of the
\* file, unchanged and in the same order.
AppendOnly ==
    region # 0 => IsPrefix(startFile, outFile[region])

\* a run has added a record behind records whose ids are no longer in the
\* ingest list
AppendOnlyWitness ==
    /\ pc = "ret"
    /\ Appended = 1
    /\ startFile # <<>>
    /\ \A k \in DOMAIN startFile :
           \A j \in DOMAIN ids : startFile[k].Id # ids[j]

\* ---- C19 --------------------------------------------------------------
\* C19: when the previous run of a region ended on a failed remote call and
\* the region is run again with the same ingest list, the new run issues no
\* remote call for an id whose record the aborted run had written, and when
\* it returns the snapshot holds a record for every ingest id.
ResumeAfterAbort ==
    (Loaded /\ aborted[region])
        => /\ pc \in {"sleep", "get", "resp", "encode"}
                => ids[idx] \notin IdSet(startFile)
           /\ calls <= 2 * Len(Misses(ids, startFile))
           /\ pc = "ret"
                => \A k \in DOMAIN ids : ids[k] \in IdSet(outFile[region])

\* the re-run skipped the id fetched before the abort and fetched the other
ResumeAfterAbortWitness ==
    /\ pc = "ret"
    /\ aborted[region]
    /\ Len(startFile) = 1
    /\ Len(ids) = 2
    /\ ids[1] = startFile[1].Id
    /\ Appended = 1

\* ---- C17 --------------------------------------------------------------
\* the entries a run creates for the ids in l while the service serves p
Fresh(l, p) == [k \in DOMAIN l |-> createEntry(l[k], p, p)]

\* C17 (as stated): no step of a region's run touches another region's
\* file, so the snapshot a region ends a process run with does not depend on
\* the order of the regions.  Visited first, a region is reconciled with its
\* ingest list before anything can go wrong elsewhere; so whenever the
\* process ends, every region but the one it failed in is reconciled.
RegionOrderIndependent ==
    pc \in {"done", "failed"}
        => \A r \in Regions \ {region} : Misses(ingests[r], outFile[r]) = <<>>

\* C17 (amended): a step changes no file but the one of the region being
\* processed; a run of processRegion that returns leaves the region's own
\* starting snapshot followed by the entries of its own MISS ids, whatever
\* happened to other regions; and a process run that ends without a fatal
\* error leaves every region reconciled, whatever the order.  (A fatal error
\* leaves the regions not yet visited as they were.)
RegionIsolation ==
    [][(/\ \A r \in Regions :
              (r # region') => (/\ outFile'[r] = outFile[r]
                                /\ outExists'[r] = outExists[r])
        /\ (pc' = "ret")
              => (outFile'[region'] =
                      startFile' \o Fresh(Misses(ids', startFile'), remote'))
        /\ (pc' = "done")
              => (\A r \in Regions :
                      Misses(ingests'[r], outFile'[r]) = <<>>))]_vars

\* both regions had ids to fetch and the process has ended without failure
RegionIsolationWitness ==
    /\ pc = "done"
    /\ runs = 1
    /\ \A r \in Regions : Len(outFile[r]) = 2 /\ ingests[r][1] # ingests[r][2]
    /\ ingests[1] # ingests[2]

\* ---- C12 --------------------------------------------------------------
\* C12: every process run eventually ends, as done or as a reported
\* failure, also when the remote service never answers a call.
NoIndefiniteBlocking ==
    <>(pc \in {"done", "failed"})

\* ---- vocabulary of the derivations -------------------------------------
StartsWith(t, u) == Len(u) <= Len(t) /\ SubSeq(t, 1, Len(u)) = u
EndsWith(t, u) ==
    Len(u) <= Len(t) /\ SubSeq(t, Len(t) - Len(u) + 1, Len(t)) = u
Contains(t, u) ==
    \E i \in 1..(Len(t) - Len(u) + 1) : SubSeq(t, i, i + Len(u) - 1) = u

\* the description the rule asks for, segment by segment from the left:
\* an empty segment adds nothing, a non-empty one is put in front of what
\* follows, with ", " in between when something follows
RECURSIVE Described(_)
Described(segments) ==
    IF segments = <<>> THEN ""
    ELSE LET rest == Described(Tail(segments))
         IN  IF Head(segments) = "" THEN rest
             ELSE IF rest = "" THEN Head(segments)
             ELSE Head(segments) \o ", " \o rest

Segments == potentialLocationSegments(info.Location)

\* ---- C13 --------------------------------------------------------------
\* C13 (as stated): the location description is the non-empty segments in
\* their order joined with ", ", the empty string when all five are empty,
\* and it never starts or ends with a separator or holds two adjacent ones.
LocationDescriptionClean ==
    pc = "transformed"
        => /\ entry.LocationDescription = Described(Segments)
           /\ (\A k \in 1..5 : Segments[k] = "")
                  => entry.LocationDescription = ""
           /\ ~StartsWith(entry.LocationDescription, ", ")
           /\ ~EndsWith(entry.LocationDescription, ", ")
           /\ ~Contains(entry.LocationDescription, ", , ")

\* C13 (amended): the location description is the non-empty segments in
\* their order joined with ", ", and the empty string when all five are
\* empty; when no segment itself contains ", ", it neither starts nor ends
\* with a separator nor holds two adjacent ones.
LocationDescriptionJoined ==
    pc = "transformed"
        => /\ entry.LocationDescription = Described(Segments)
           /\ (\A k \in 1..5 : Segments[k] = "")
                  => entry.LocationDescription = ""
           /\ (\A k \in 1..5 : ~Contains(Segments[k], ", "))
                  => /\ ~StartsWith(entry.LocationDescription, ", ")
                     /\ ~EndsWith(entry.LocationDescription, ", ")
                     /\ ~Contains(entry.LocationDescription, ", , ")

\* empty segments at the start and in the middle are dropped
LocationDescriptionJoinedWitness ==
    /\ pc = "transformed"
    /\ Segments = <<"", "A", "", "AA", "A">>
    /\ entry.LocationDescription = "A, AA, A"

\* ---- C14 --------------------------------------------------------------
\* C14: the owner icon is the default icon reference exactly when the
\* icon-server field is "0"; for every other value, the empty one included,
\* it is https://farm{iconfarm}.staticflickr.com/{iconserver}/buddyicons/
\* {nsid}.jpg with the payload's own values.
OwnerIconDerived ==
    pc = "transformed"
        => /\ (entry.OwnerIcon = "https://www.flickr.com/images/buddyicon.gif")
                  <=> (info.Owner.IconServer = "0")
           /\ (info.Owner.IconServer # "0")
                  => entry.OwnerIcon =
                         Join(<<"https://farm", ToString(info.Owner.IconFarm),
                                ".staticflickr.com/", info.Owner.IconServer,
                                "/buddyicons/", info.Owner.NSID, ".jpg">>, "")

\* the fixture of the specification: icon server 1234 on farm 5
OwnerIconDerivedWitness ==
    /\ pc = "transformed"
    /\ info.Owner.IconServer = "1234"
    /\ info.Owner.IconFarm = 5
    /\ info.Owner.NSID = "nsid123"
    /\ entry.OwnerIcon =
           "https://farm5.staticflickr.com/1234/buddyicons/nsid123.jpg"

\* ---- C15 --------------------------------------------------------------
\* C15: with at least one URL entry the webpage is the content of the first
\* entry, whatever the later entries hold; with none it is
\* https://flickr.com/photos/ followed by the owner's identifier.
WebpageDerived ==
    pc = "transformed"
        => /\ (info.URLs # <<>>) => entry.Webpage = Head(info.URLs).Content
           /\ (info.URLs = <<>>)
                  => /\ StartsWith(entry.Webpage, "https://flickr.com/photos/")
                     /\ EndsWith(entry.Webpage, info.Owner.NSID)
                     /\ Len(entry.Webpage) = 26 + Len(info.Owner.NSID)

\* two URL entries with different contents: the first one is the webpage
WebpageDerivedWitness ==
    /\ pc = "transformed"
    /\ Len(info.URLs) = 2
    /\ info.URLs[1].Content = "https://www.flickr.com/photos/x/1/"
    /\ info.URLs[2].Content = "u"
    /\ entry.Webpage = "https://www.flickr.com/photos/x/1/"
====
